---- MODULE Spec2Model ----
(***************************************************************************)
(* A model of the scam-keyword detector: the KeywordScanner and the        *)
(* AIClassifier of src/scanner.ts and the two result combiners of          *)
(* src/background.ts and src/unnamed/part_002.                             *)
(*                                                                         *)
(* Texts are sequences of one-character strings, so that lower-casing,     *)
(* word boundaries and substring search are modelled character by          *)
(* character.  Fractions (0.3, 0.25, ...) are kept as integers in          *)
(* hundredths; products of two fractions are kept in ten-thousandths.      *)
(***************************************************************************)
EXTENDS Integers, Sequences, FiniteSets, TLC

(***************************************************************************)
(* Bounds of the model.                                                    *)
(***************************************************************************)
\* the longest text, in fragments of Fragments
MaxFrags == 2
\* the number of addCustomKeyword / removeKeyword calls in one behaviour
MaxOps == 2
\* the most pieces with text in a message handed to classifyWithAI
MaxFilled == 1
MaxPieces == 2
MaxAnalyses == 2
MaxRecords == 102
MaxFlows == 2

(***************************************************************************)
(* Characters and strings.                                                 *)
(***************************************************************************)
Severities == {"low", "medium", "high", "critical"}

\* String.prototype.toLowerCase on one character of the model's alphabet
LowerChar(c) ==
    CASE c = "I" -> "i"
      [] c = "R" -> "r"
      [] c = "S" -> "s"
      [] c = "X" -> "x"
      [] c = "U" -> "u"
      [] c = "G" -> "g"
      [] c = "E" -> "e"
      [] c = "N" -> "n"
      [] c = "T" -> "t"
      [] OTHER -> c

\* String.prototype.toLowerCase
ToLowerCase(s) == [i \in 1..Len(s) |-> LowerChar(s[i])]

\* a regex word character (\w); the space is the alphabet's only other character
IsWordChar(c) == c \notin {" ", ":", "/", "."}

\* the regex assertion \b holds between text[i] and text[i+1] (i = 0..Len)
WordBoundary(text, i) ==
    LET before == i >= 1 /\ IsWordChar(text[i])
        after == i < Len(text) /\ IsWordChar(text[i + 1])
    IN  before # after

\* the regex /\bkeyword\b/i matches text at offset i (0-based), the keyword
\* taken literally (escapeRegex) and letters compared without case
MatchesAt(keyword, text, i) ==
    /\ i + Len(keyword) <= Len(text)
    /\ \A j \in 1..Len(keyword) : LowerChar(text[i + j]) = LowerChar(keyword[j])
    /\ WordBoundary(text, i)
    /\ WordBoundary(text, i + Len(keyword))

\* the offsets regex.exec returns in the while loop of scan, starting the
\* search at lastIndex: the leftmost match, then on from its end
RECURSIVE ExecAll(_, _, _)
ExecAll(keyword, text, lastIndex) ==
    LET starts == {i \in lastIndex..(Len(text) - Len(keyword)) : MatchesAt(keyword, text, i)}
    IN  IF starts = {} THEN <<>>
        ELSE LET first == CHOOSE i \in starts : \A k \in starts : i <= k
             IN  <<first>> \o ExecAll(keyword, text, first + Len(keyword))

(***************************************************************************)
(* KeywordScanner.                                                         *)
(***************************************************************************)
\* the phrases of the built-in table that the model's texts can contain
kw_ssn == <<"s", "s", "n">>
kw_IRS == <<"I", "R", "S">>
kw_prize == <<"p", "r", "i", "z", "e">>
kw_confirm == <<"c", "o", "n", "f", "i", "r", "m">>
kw_urgent == <<"u", "r", "g", "e", "n", "t">>
kw_gift_card == <<"g", "i", "f", "t", " ", "c", "a", "r", "d">>

\* KeywordScanner.categories: the eleven categories with their severities and
\* weights, each keyword list cut down to the phrases over the model's alphabet
BuiltinCategories ==
    << [keywords |-> <<>>,                  severity |-> "critical", weight |-> 10],
       [keywords |-> <<kw_urgent>>,         severity |-> "high",     weight |-> 8],
       [keywords |-> <<kw_gift_card>>,      severity |-> "critical", weight |-> 10],
       [keywords |-> <<kw_ssn>>,            severity |-> "critical", weight |-> 10],
       [keywords |-> <<kw_IRS>>,            severity |-> "high",     weight |-> 9],
       [keywords |-> <<>>,                  severity |-> "high",     weight |-> 8],
       [keywords |-> <<>>,                  severity |-> "medium",   weight |-> 6],
       [keywords |-> <<kw_prize>>,          severity |-> "medium",   weight |-> 7],
       [keywords |-> <<>>,                  severity |-> "medium",   weight |-> 6],
       [keywords |-> <<>>,                  severity |-> "medium",   weight |-> 5],
       [keywords |-> <<kw_confirm>>,        severity |-> "low",      weight |-> 3] >>

\* KeywordScanner.severityScores
severityScores == [low |-> 1, medium |-> 3, high |-> 6, critical |-> 10]

\* severityRanks of calculateOverallSeverity
severityRanks == [low |-> 1, medium |-> 2, high |-> 3, critical |-> 4]

\* the for loop of calculateOverallSeverity over details[i..], carrying
\* maxRank, criticalCount and highCount
RECURSIVE SeverityLoop(_, _, _, _, _)
SeverityLoop(details, i, maxRank, criticalCount, highCount) ==
    IF i > Len(details)
    THEN [maxRank |-> maxRank, criticalCount |-> criticalCount, highCount |-> highCount]
    ELSE LET rank == severityRanks[details[i].severity]
         IN  SeverityLoop(details, i + 1,
                          IF rank > maxRank THEN rank ELSE maxRank,
                          IF details[i].severity = "critical" THEN criticalCount + 1 ELSE criticalCount,
                          IF details[i].severity = "high" THEN highCount + 1 ELSE highCount)

\* a slip of the loop: the last detail's rank replaces maxRank
RECURSIVE SeverityLoopLastWins(_, _, _, _, _)
SeverityLoopLastWins(details, i, maxRank, criticalCount, highCount) ==
    IF i > Len(details)
    THEN [maxRank |-> maxRank, criticalCount |-> criticalCount, highCount |-> highCount]
    ELSE SeverityLoopLastWins(details, i + 1,
                          severityRanks[details[i].severity],
                          IF details[i].severity = "critical" THEN criticalCount + 1 ELSE criticalCount,
                          IF details[i].severity = "high" THEN highCount + 1 ELSE highCount)

\* KeywordScanner.calculateOverallSeverity, mutated: maxRank is the last rank
calculateOverallSeverityLastWins(details) ==
    IF Len(details) = 0 THEN "low"
    ELSE LET c == SeverityLoopLastWins(details, 1, 0, 0, 0)
         IN  IF c.criticalCount >= 2 \/ (c.criticalCount >= 1 /\ c.highCount >= 1)
             THEN "critical"
             ELSE IF c.maxRank = 4 THEN "critical"
             ELSE IF c.maxRank = 3 THEN "high"
             ELSE IF c.maxRank = 2 THEN "medium"
             ELSE "low"

\* KeywordScanner.calculateOverallSeverity
calculateOverallSeverity(details) ==
    IF Len(details) = 0 THEN "low"
    ELSE LET c == SeverityLoop(details, 1, 0, 0, 0)
         IN  IF c.criticalCount >= 2 \/ (c.criticalCount >= 1 /\ c.highCount >= 1)
             THEN "critical"
             ELSE IF c.maxRank = 4 THEN "critical"
             ELSE IF c.maxRank = 3 THEN "high"
             ELSE IF c.maxRank = 2 THEN "medium"
             ELSE "low"

\* Set.add on the insertion-ordered Set matchedKeywords
SetAdd(set, x) == IF \E i \in 1..Len(set) : set[i] = x THEN set ELSE Append(set, x)

\* a slip of the loop body: the score is added with the Set insertion, once
\* per distinct phrase
RECURSIVE ScanMatchesScoreOnce(_, _, _, _, _, _)
ScanMatchesScoreOnce(acc, cats, c, keyword, positions, k) ==
    IF k > Len(positions) THEN acc
    ELSE ScanMatchesScoreOnce(
           [details |-> Append(acc.details,
                               [keyword |-> keyword, severity |-> cats[c].severity,
                                position |-> positions[k], cat |-> c]),
            matchedKeywords |-> SetAdd(acc.matchedKeywords, keyword),
            totalScore |-> IF SetAdd(acc.matchedKeywords, keyword) = acc.matchedKeywords
                           THEN acc.totalScore
                           ELSE acc.totalScore + severityScores[cats[c].severity] * cats[c].weight],
           cats, c, keyword, positions, k + 1)

\* the body of the while loop of scan, once per offset of positions[k..];
\* acc carries details, matchedKeywords and totalScore.  A detail's cat is
\* the index of the category it was found in (not a field of MatchDetail).
RECURSIVE ScanMatches(_, _, _, _, _, _)
ScanMatches(acc, cats, c, keyword, positions, k) ==
    IF k > Len(positions) THEN acc
    ELSE ScanMatches(
           [details |-> Append(acc.details,
                               [keyword |-> keyword, severity |-> cats[c].severity,
                                position |-> positions[k], cat |-> c]),
            matchedKeywords |-> SetAdd(acc.matchedKeywords, keyword),
            totalScore |-> acc.totalScore + severityScores[cats[c].severity] * cats[c].weight],
           cats, c, keyword, positions, k + 1)

\* the two for loops of scan from category c, keyword k on
RECURSIVE ScanLoop(_, _, _, _, _)
ScanLoop(acc, cats, text, c, k) ==
    IF c > Len(cats) THEN acc
    ELSE IF k > Len(cats[c].keywords) THEN ScanLoop(acc, cats, text, c + 1, 1)
    ELSE LET keyword == cats[c].keywords[k]
         IN  ScanLoop(ScanMatches(acc, cats, c, keyword, ExecAll(keyword, text, 0), 1),
                      cats, text, c, k + 1)

\* KeywordScanner.scan
scan(cats, text) ==
    LET acc == ScanLoop([details |-> <<>>, matchedKeywords |-> <<>>, totalScore |-> 0],
                        cats, text, 1, 1)
    IN  [flagged |-> Len(acc.details) > 0,
         score |-> acc.totalScore,
         matches |-> acc.matchedKeywords,
         severity |-> calculateOverallSeverity(acc.details),
         details |-> acc.details]

\* Array.prototype.find / findIndex: the first category of that severity, 0 if none
FindCategory(cats, severity) ==
    LET found == {i \in 1..Len(cats) : cats[i].severity = severity}
    IN  IF found = {} THEN 0 ELSE CHOOSE i \in found : \A j \in found : i <= j

\* Array.prototype.includes / indexOf on a keyword list: the first index, 0 if none
IndexOf(keywords, keyword) ==
    LET found == {i \in 1..Len(keywords) : keywords[i] = keyword}
    IN  IF found = {} THEN 0 ELSE CHOOSE i \in found : \A j \in found : i <= j

\* Array.prototype.splice(index, 1)
Splice1(keywords, index) ==
    [i \in 1..(Len(keywords) - 1) |-> IF i < index THEN keywords[i] ELSE keywords[i + 1]]

\* KeywordScanner.addCustomKeyword: the categories after the call
addCustomKeyword(cats, keyword, severity, weight) ==
    LET found == FindCategory(cats, severity)
        cats1 == IF found = 0
                 THEN Append(cats, [keywords |-> <<>>, severity |-> severity, weight |-> weight])
                 ELSE cats
        c == IF found = 0 THEN Len(cats1) ELSE found
    IN  IF IndexOf(cats1[c].keywords, ToLowerCase(keyword)) = 0
        THEN [cats1 EXCEPT ![c].keywords = Append(@, ToLowerCase(keyword))]
        ELSE cats1

\* KeywordScanner.removeKeyword: the categories after the call
removeKeywordCategories(cats, keyword) ==
    [c \in 1..Len(cats) |->
        LET index == IndexOf(cats[c].keywords, ToLowerCase(keyword))
        IN  IF index > 0
            THEN [cats[c] EXCEPT !.keywords = Splice1(@, index)]
            ELSE cats[c]]

\* KeywordScanner.removeKeyword: the value it returns
removeKeywordReturns(cats, keyword) ==
    \E c \in 1..Len(cats) : IndexOf(cats[c].keywords, ToLowerCase(keyword)) > 0


(***************************************************************************)
(* AIClassifier: the heuristic evaluator.                                  *)
(*                                                                         *)
(* A message is a record [body, pad]: the characters of body followed by   *)
(* pad filler characters "." that no search string holds.  A reason is the *)
(* list of sentences that join('; ') glues together; the empty string is   *)
(* the empty list.  Scores and confidences are in hundredths; the         *)
(* rounding of a score or confidence tells whether its double lies below   *)
(* (-1), at (0) or above (1) the double of that decimal value.             *)
(***************************************************************************)
\* the strings mockClassify searches for
n_urgent == <<"u", "r", "g", "e", "n", "t">>
n_immediate == <<"i", "m", "m", "e", "d", "i", "a", "t", "e">>
n_click == <<"c", "l", "i", "c", "k">>
n_link == <<"l", "i", "n", "k">>
n_verify == <<"v", "e", "r", "i", "f", "y">>
n_confirm == <<"c", "o", "n", "f", "i", "r", "m">>
n_account == <<"a", "c", "c", "o", "u", "n", "t">>
n_suspend == <<"s", "u", "s", "p", "e", "n", "d">>
n_lock == <<"l", "o", "c", "k">>
n_password == <<"p", "a", "s", "s", "w", "o", "r", "d">>
n_credit_card == <<"c", "r", "e", "d", "i", "t", " ", "c", "a", "r", "d">>
n_gift_card == <<"g", "i", "f", "t", " ", "c", "a", "r", "d">>
n_wire_transfer == <<"w", "i", "r", "e", " ", "t", "r", "a", "n", "s", "f", "e", "r">>
n_http == <<"h", "t", "t", "p", ":", "/", "/">>
n_https == <<"h", "t", "t", "p", "s", ":", "/", "/">>
n_ssn == kw_ssn
n_social_security == <<"s", "o", "c", "i", "a", "l", " ", "s", "e", "c", "u", "r", "i", "t", "y">>

\* message.length
MsgLength(message) == Len(message.body) + message.pad

\* String.prototype.includes on the lower-cased message
Includes(chars, needle) ==
    \E i \in 0..(Len(chars) - Len(needle)) :
        \A j \in 1..Len(needle) : chars[i + j] = needle[j]

\* (message.match(/https?:\/\//g) || []).length, on the message as given
UrlCount(chars) ==
    Cardinality({i \in 0..Len(chars) :
        \E n \in {n_http, n_https} :
            /\ i + Len(n) <= Len(chars)
            /\ \A j \in 1..Len(n) : chars[i + j] = n[j]})

\* the condition of each if statement of mockClassify but the last
Urgency(lowerMsg) == Includes(lowerMsg, n_urgent) \/ Includes(lowerMsg, n_immediate)
ClickLink(lowerMsg) == Includes(lowerMsg, n_click) /\ Includes(lowerMsg, n_link)
Verification(lowerMsg) == Includes(lowerMsg, n_verify) \/ Includes(lowerMsg, n_confirm)
AccountThreat(lowerMsg) ==
    Includes(lowerMsg, n_account) /\ (Includes(lowerMsg, n_suspend) \/ Includes(lowerMsg, n_lock))
SensitiveData(lowerMsg) ==
    Includes(lowerMsg, n_password) \/ Includes(lowerMsg, n_credit_card) \/ Includes(lowerMsg, n_ssn)
UnusualPayment(lowerMsg) == Includes(lowerMsg, n_gift_card) \/ Includes(lowerMsg, n_wire_transfer)
MultipleUrls(chars) == UrlCount(chars) >= 2

\* the length beyond which a message is long
LongMessage == 500

\* suspicionScore += increment in double arithmetic: whether the sum comes
\* out below (-1), at (0) or above (1) the double of its decimal value, from
\* the decimal value and the rounding of suspicionScore before.  0.2 + 0.4 is
\* 0.6000000000000001 and 0.3 + 0.6 is 0.8999999999999999.  A sum above 1.0
\* is cut to 1.0 by Math.min, so its rounding is left at 0.
DoubleRounding(sum, rounding, increment) ==
    IF sum + increment > 100 THEN 0
    ELSE IF <<sum, rounding, increment>> \in
              { <<20, 0, 40>>, <<40, 0, 20>>, <<45, 0, 40>>, <<55, 0, 40>>,
                <<60, 1, 10>>, <<65, 0, 20>>, <<85, 1, 10>> } THEN 1
    ELSE IF <<sum, rounding, increment>> \in
              { <<30, 0, 60>>, <<70, 0, 10>>, <<70, 0, 20>>, <<90, -1, 10>> } THEN -1
    ELSE 0

\* one if statement: suspicionScore += increment; reasons.push(reason)
AddSignal(acc, triggered, increment, reason) ==
    IF triggered
    THEN [suspicionScore |-> acc.suspicionScore + increment,
          rounding |-> DoubleRounding(acc.suspicionScore, acc.rounding, increment),
          reasons |-> Append(acc.reasons, reason)]
    ELSE acc

\* the last if statement, with >= 0.3 for > 0.3
LongBonusAtThreshold(acc, message) ==
    AddSignal(acc, MsgLength(message) > LongMessage /\ acc.suspicionScore >= 30, 10,
              "Long message with suspicious content")

\* the last if statement of mockClassify: the bonus of a long message
LongBonus(acc, message) ==
    AddSignal(acc, MsgLength(message) > LongMessage /\ acc.suspicionScore > 30, 10,
              "Long message with suspicious content")

\* the if statements of mockClassify in their order: suspicionScore and reasons
Accumulate(message) ==
    LET lowerMsg == ToLowerCase(message.body)
        a0 == [suspicionScore |-> 0, rounding |-> 0, reasons |-> <<>>]
        a1 == AddSignal(a0, Urgency(lowerMsg), 30, "Uses urgent language")
        a2 == AddSignal(a1, ClickLink(lowerMsg), 25, "Contains clickable link request")
        a3 == AddSignal(a2, Verification(lowerMsg), 20, "Requests verification")
        a4 == AddSignal(a3, AccountThreat(lowerMsg), 40, "Threatens account suspension")
        a5 == AddSignal(a4, SensitiveData(lowerMsg), 50, "Requests sensitive information")
        a6 == AddSignal(a5, UnusualPayment(lowerMsg), 60, "Requests unusual payment method")
        a7 == AddSignal(a6, MultipleUrls(message.body), 20, "Contains multiple URLs")
    IN  LongBonus(a7, message)

\* Math.min
Min(a, b) == IF a < b THEN a ELSE b

NothingDetected == <<"No significant suspicious patterns detected">>

\* AIClassifier.mockClassify
mockClassify(message) ==
    LET acc == Accumulate(message)
        isSuspicious == acc.suspicionScore >= 40
        confidence == Min(acc.suspicionScore, 100)
    IN  [isSuspicious |-> isSuspicious,
         reason |-> IF isSuspicious THEN acc.reasons ELSE NothingDetected,
         confidence |-> confidence,
         rounding |-> IF acc.suspicionScore > 100 THEN 0 ELSE acc.rounding]

(***************************************************************************)
(* AIClassifier: settings and the delegated request.                       *)
(*                                                                         *)
(* A value that may be missing (a key of the storage, a field of the       *)
(* response body) is a record [present, value].                            *)
(***************************************************************************)
Missing(v) == [present |-> FALSE, value |-> v]
Present(v) == [present |-> TRUE, value |-> v]

\* result.aiEndpoint || '' : the left side unless it is missing or falsy
OrElse(field, falsy, default) ==
    IF field.present /\ field.value # falsy THEN field.value ELSE default

NoExplanation == <<"No explanation provided">>

\* the object literal returned after response.json(), lines 279-283
RemoteVerdict(data) ==
    [isSuspicious |-> OrElse(data.isSuspicious, FALSE, FALSE),
     reason |-> OrElse(data.reason, <<>>, NoExplanation),
     confidence |-> OrElse(data.confidence, 0, 50),
     rounding |-> 0]

\* the try block without the check of response.ok: the body of an error
\* response is read like that of a success
FetchSettledNoStatusCheck(outcome, msg) ==
    IF outcome.kind \in {"ok", "http_error"}
    THEN [settled |-> "resolved", path |-> "delegated", verdict |-> RemoteVerdict(outcome.data)]
    ELSE [settled |-> "resolved", path |-> "fallback", verdict |-> mockClassify(msg)]

\* classifyWithAI from the settling of fetch on: the try block and its catch.
\* Every throw inside the try block (fetch rejecting, the status check,
\* response.json() rejecting, reading a field of a null body) lands in the
\* catch block, which returns mockClassify(message).
FetchSettled(outcome, msg) ==
    IF outcome.kind = "ok"
    THEN [settled |-> "resolved", path |-> "delegated", verdict |-> RemoteVerdict(outcome.data)]
    ELSE [settled |-> "resolved", path |-> "fallback", verdict |-> mockClassify(msg)]

\* the guard of classifyWithAI: this.mockMode || !this.apiEndpoint
UsesHeuristic(mock, endpoint) == mock \/ endpoint = ""

(***************************************************************************)
(* The two background scripts: src/background.ts and the second background *)
(* script, src/unnamed/part_002.  Each combines the DetectionResult of the *)
(* scanner and the AIVerdict of the classifier into a CombinedAnalysis.    *)
(*                                                                         *)
(* normalizeScore gives two-hundredths and the confidence is in            *)
(* hundredths, so the finalScore of background.ts is in thousandths:       *)
(* (k / 200) * 0.6 + (c / 100) * 0.4 = (3 * k + 4 * c) / 1000.  The        *)
(* finalScore of the second script, score * 0.6 + c * 0.4 with c the       *)
(* confidence times 100, is in tenths: (6 * score + 4 * c) / 10.  A        *)
(* recommendation is the sequence of its sentences.                        *)
(***************************************************************************)
Scripts == {"background", "part_002"}

\* const maxExpectedScore of normalizeScore
maxExpectedScore == 200

\* normalizeScore of background.ts, in two-hundredths
normalizeScore(rawScore) == Min(rawScore, maxExpectedScore)

\* combinedScore of analyzeText in background.ts, in thousandths
combinedScore(kw, ai) ==
    (normalizeScore(kw.score) * 600) \div maxExpectedScore + ai.confidence * 4

\* determineOverallSeverity of background.ts, score in thousandths
determineOverallSeverity(keywordSeverity, aiSuspicious, score) ==
    IF keywordSeverity = "critical" \/ (aiSuspicious /\ score >= 800) THEN "critical"
    ELSE IF keywordSeverity = "high" \/ (aiSuspicious /\ score >= 600) THEN "high"
    ELSE IF keywordSeverity = "medium" \/ score >= 400 THEN "medium"
    ELSE "low"

\* keywordResult.matches.some(m => m.includes(a) || m.includes(b))
SomeMatchIncludes(matches, a, b) ==
    \E i \in 1..Len(matches) : Includes(matches[i], a) \/ Includes(matches[i], b)

AppearsSafe == "This message appears safe. No significant scam indicators detected."

\* recommendations.push(sentence) under a condition
PushIf(recommendations, condition, sentences) ==
    IF condition THEN recommendations \o sentences ELSE recommendations

\* generateRecommendation of background.ts
generateRecommendation(isSuspicious, severity, kw, ai) ==
    IF ~isSuspicious
    THEN <<AppearsSafe>>
    ELSE LET r1 == << IF severity = "critical"
                        THEN "HIGH RISK: Do not respond or take any action."
                      ELSE IF severity = "high"
                        THEN "WARNING: Exercise extreme caution."
                      ELSE "CAUTION: This message shows some suspicious signs." >>
             r2 == PushIf(r1, SomeMatchIncludes(kw.matches, n_gift_card, n_wire_transfer),
                     <<"Never pay with gift cards or wire transfers for legitimate services.">>)
             r3 == PushIf(r2, SomeMatchIncludes(kw.matches, n_password, n_social_security),
                     <<"Never share passwords or personal information via message.">>)
             r4 == PushIf(r3, SomeMatchIncludes(kw.matches, n_urgent, n_immediate),
                     <<"Legitimate organizations rarely demand immediate action.">>)
             r5 == PushIf(r4, ai.isSuspicious, <<"AI Analysis:">> \o ai.reason)
         IN  Append(r5, "When in doubt, contact the organization directly using official contact information.")

\* the CombinedAnalysis built by analyzeText of background.ts
combineBackground(kw, ai) ==
    LET score == combinedScore(kw, ai)
        isSuspicious == score >= 500 \/ kw.severity = "critical" \/ ai.isSuspicious
        overallSeverity == determineOverallSeverity(kw.severity, ai.isSuspicious, score)
    IN  [isSuspicious |-> isSuspicious,
         overallSeverity |-> overallSeverity,
         finalScore |-> score,
         recommendation |-> generateRecommendation(isSuspicious, overallSeverity, kw, ai)]

\* showNotification of background.ts: what chrome.notifications.create gets
showNotificationBackground(severity) ==
    [title |-> CASE severity = "low" -> "Potential Scam Detected"
                 [] severity = "medium" -> "Suspicious Message Detected"
                 [] severity = "high" -> "Warning: Likely Scam"
                 [] OTHER -> "DANGER: Scam Detected",
     message |-> << CASE severity = "low" -> "This message shows some suspicious signs."
                      [] severity = "medium" -> "This message contains multiple scam indicators."
                      [] severity = "high" -> "This message is very likely a scam attempt."
                      [] OTHER -> "This message is almost certainly a scam. Do not respond!" >>,
     priority |-> IF severity = "critical" THEN 2 ELSE 1,
     requireInteraction |-> severity = "critical"]

\* the recommendation of the second script for overallSeverity low
AppearsSafePart002 == "This message appears safe, but always stay vigilant."

\* aiResult.confidence > threshold on doubles, threshold in hundredths
Above(ai, threshold) ==
    ai.confidence > threshold \/ (ai.confidence = threshold /\ ai.rounding > 0)

\* combineResults of the second background script
combineResults(kw, ai) ==
    LET finalScore == kw.score * 6 + ai.confidence * 4
        isSuspicious == kw.flagged \/ ai.isSuspicious
        overallSeverity ==
            IF kw.severity = "critical" \/ (ai.isSuspicious /\ Above(ai, 80)) THEN "critical"
            ELSE IF kw.severity = "high" \/ (ai.isSuspicious /\ Above(ai, 60)) THEN "high"
            ELSE IF kw.severity = "medium" \/ ai.isSuspicious THEN "medium"
            ELSE "low"
        recommendation ==
            CASE overallSeverity = "critical" ->
                   "DANGER: This is very likely a scam. Do NOT respond or provide any information."
              [] overallSeverity = "high" ->
                   "HIGH RISK: This message shows many signs of a scam. Be extremely cautious."
              [] overallSeverity = "medium" ->
                   "CAUTION: This message has some suspicious elements. Verify before taking action."
              [] OTHER -> AppearsSafePart002
    IN  [isSuspicious |-> isSuspicious,
         overallSeverity |-> overallSeverity,
         finalScore |-> finalScore,
         recommendation |-> <<recommendation>>]

\* showNotification of the second background script
showNotificationPart002(analysis) ==
    [title |-> IF analysis.overallSeverity = "critical"
               THEN "SCAM ALERT!" ELSE "Suspicious Message Detected",
     message |-> analysis.recommendation,
     priority |-> 2,
     requireInteraction |-> FALSE]

\* the most entries either script keeps in the history
HistoryCap == 100

\* saveToHistory with splice(0, 1) for splice(100): the entry that goes is
\* the one just put in front
saveToHistoryDropsNewest(history, entry) ==
    LET h == <<entry>> \o history
    IN  IF Len(h) > HistoryCap THEN SubSeq(h, 2, Len(h)) ELSE h

\* saveToHistory of background.ts: unshift, then splice(100) if longer
saveToHistoryBackground(history, entry) ==
    LET h == <<entry>> \o history
    IN  IF Len(h) > HistoryCap THEN SubSeq(h, 1, HistoryCap) ELSE h

\* saveToHistory of the second background script: unshift, then pop() if longer
saveToHistoryPart002(history, entry) ==
    LET h == <<entry>> \o history
    IN  IF Len(h) > HistoryCap THEN SubSeq(h, 1, Len(h) - 1) ELSE h

(***************************************************************************)
(* Inputs of the model.                                                    *)
(***************************************************************************)
\* the pieces the scanner's texts are made of: a built-in phrase with and
\* without a separator after it, another one in both letter cases, a phrase
\* of a medium category, and a single word character
Fragments ==
    { kw_ssn, kw_ssn \o <<" ">>, kw_IRS \o <<" ">>, <<"i", "r", "s", " ">>,
      kw_prize \o <<" ">>, <<"x">> }

\* every text of at most n fragments
RECURSIVE TextsOf(_)
TextsOf(n) ==
    IF n = 0 THEN {<<>>}
    ELSE LET shorter == TextsOf(n - 1)
         IN  shorter \cup {t \o f : t \in shorter, f \in Fragments}

Texts == TextsOf(MaxFrags)

\* the phrases handed to addCustomKeyword and removeKeyword: a built-in phrase
\* stored in upper case, a built-in phrase stored in lower case, a new phrase
Phrases == { kw_IRS, kw_ssn, <<"X">> }

\* the default of addCustomKeyword's weight parameter
DefaultWeight == 5

\* the severities handed to addCustomKeyword: the one of the first category
\* and the one of the last
CustomSeverities == {"critical", "low"}

\* the weights handed to addCustomKeyword
CustomWeights == {DefaultWeight, 2}

\* the pieces of a message, one choice for each if statement of mockClassify
\* but the last: nothing, a text that triggers it and, where the condition
\* is a conjunction, a text that holds one half of it
SlotChoices ==
    { <<>>, <<"U", "R", "G", "E", "N", "T", " ">> }
    \X { <<>>, <<"c", "l", "i", "c", "k", " ">>, <<"c", "l", "i", "c", "k", " ", "l", "i", "n", "k", " ">> }
    \X { <<>>, <<"c", "o", "n", "f", "i", "r", "m", " ">> }
    \X { <<>>, <<"a", "c", "c", "o", "u", "n", "t", " ">>, <<"a", "c", "c", "o", "u", "n", "t", " ", "l", "o", "c", "k", " ">> }
    \X { <<>>, <<"s", "s", "n", " ">> }
    \X { <<>>, <<"g", "i", "f", "t", " ", "c", "a", "r", "d", " ">> }
    \X { <<>>, <<"h", "t", "t", "p", ":", "/", "/", "a", " ">>, <<"h", "t", "t", "p", ":", "/", "/", "a", " ", "h", "t", "t", "p", "s", ":", "/", "/", "b", " ">> }

\* the message body of a choice: its pieces one after the other
BodyOf(c) == c[1] \o c[2] \o c[3] \o c[4] \o c[5] \o c[6] \o c[7]

\* the number of pieces of a choice that hold text
Filled(c) == Cardinality({i \in 1..Len(c) : c[i] # <<>>})

\* a body in its three lengths: as it is, padded to LongMessage characters
\* and padded to one more
MessagesOf(choices) ==
    UNION { { [body |-> BodyOf(c), pad |-> n] :
                n \in {0, LongMessage - Len(BodyOf(c)), LongMessage + 1 - Len(BodyOf(c))} } :
            c \in choices }

\* every message: the inputs of the heuristic evaluator on its own
Messages == MessagesOf(SlotChoices)

\* the messages of at most MaxFilled pieces: the inputs of classifyWithAI
ShortMessages == MessagesOf({c \in SlotChoices : Filled(c) <= MaxFilled})

\* the texts handed to analyzeText: the bodies of at most MaxPieces pieces
AnalysisTexts == {BodyOf(c) : c \in {c \in SlotChoices : Filled(c) <= MaxPieces}}

\* the texts of the analyses under way at once: one the scripts find
\* suspicious and one they do not
ConcurrentTexts == {<<"s", "s", "n", " ">>, <<"x">>}

\* the text of the analyses that fill the history
HistoryTexts == {<<"x">>}

\* the endpoints and credentials handed to configureAPI
Endpoints == {"", "https://ai.example/classify"}
ApiKeys == {"secret"}

\* the response bodies of the remote service: every field missing or present,
\* present also with a falsy value, confidence also outside [0, 1]
ResponseBodies ==
    [isSuspicious : {Missing(FALSE), Present(FALSE), Present(TRUE)},
     reason : {Missing(<<>>), Present(<<>>), Present(<<"Known phishing template">>)},
     confidence : {Missing(0), Present(0), Present(70), Present(150), Present(-20)}]

NoBody == [isSuspicious |-> Missing(FALSE), reason |-> Missing(<<>>), confidence |-> Missing(0)]

\* what a fetch can come to: it rejects, it answers with an error status, the
\* body is no JSON, the body is the JSON null, or the body is an object
FetchOutcomes ==
    { [kind |-> k, data |-> NoBody] : k \in {"network_error", "parse_error", "null_body"} }
    \cup { [kind |-> "http_error", data |-> d] : d \in {NoBody, [NoBody EXCEPT !.confidence = Present(70)]} }
    \cup { [kind |-> "ok", data |-> d] : d \in ResponseBodies }

\* what the fetch of an analysis can come to: it rejects, or the service
\* answers with every field set
AnalysisOutcomes ==
    { [kind |-> "network_error", data |-> NoBody] }
    \cup { [kind |-> "ok", data |-> d] :
              d \in [isSuspicious : {Present(FALSE), Present(TRUE)},
                     reason : {Present(<<"Known phishing template">>)},
                     confidence : {Present(0), Present(60), Present(80), Present(150)}] }

\* what the storage holds when the classifier is constructed: nothing, the
\* mockMode: true that onInstalled of the second background script writes, or
\* the settings of an earlier configureAPI
NothingStored == [aiEndpoint |-> Missing(""), aiKey |-> Missing(""), mockMode |-> Missing(TRUE)]

InitialStores ==
    { NothingStored,
      [NothingStored EXCEPT !.mockMode = Present(TRUE)],
      [aiEndpoint |-> Present("https://ai.example/classify"), aiKey |-> Present("secret"),
       mockMode |-> Present(FALSE)] }

(***************************************************************************)
(* State.                                                                  *)
(***************************************************************************)
VARIABLES
    categories,     \* KeywordScanner.categories
    opCount,        \* addCustomKeyword / removeKeyword calls so far
    lastMut,        \* the latest such call: its name, argument and result
    pc,             \* where the caller is: "idle", "scanned", "fetching", ...
    text,           \* the text of the scan under way
    keywordResult,  \* the DetectionResult of the latest scan
    apiEndpoint,    \* AIClassifier.apiEndpoint
    apiKey,         \* AIClassifier.apiKey
    mockMode,       \* AIClassifier.mockMode
    stored,         \* chrome.storage.local: aiEndpoint, aiKey, mockMode
    pendingLoad,    \* the storage read of loadSettings and what it will deliver
    message,        \* the message of the classification under way
    response,       \* what the fetch of the latest classification came to
    aiCall,         \* how the promise of classifyWithAI settled, and by which path
    aiResult,       \* the AIVerdict of the latest classification
    script,         \* the background script that is installed
    analyses,       \* the calls of analyzeText so far; the latest one names its entry
    analysis,       \* the CombinedAnalysis of the analysis under way
    lastAnalysis,   \* let lastAnalysis: the analysis it holds, 0 for null
    notification,   \* what chrome.notifications.create got in the analysis under way
    history,        \* chrome.storage.local: scanHistory or analysisHistory
    totalScans,     \* chrome.storage.local: totalScans
    scamsDetected,  \* chrome.storage.local: scamsDetected
    storageQueue,   \* the reads and writes chrome.storage.local has still to serve
    suspicious      \* the analyses found suspicious so far

scannerVars == <<categories, opCount, lastMut, text, keywordResult>>
settingsVars == <<apiEndpoint, apiKey, mockMode, stored, pendingLoad>>
classifyVars == <<message, response, aiCall, aiResult>>
storageVars == <<history, totalScans, scamsDetected>>
flowVars == <<storageQueue, suspicious>>
analysisVars == <<script, analyses, analysis, lastAnalysis, notification, storageVars, flowVars>>

vars == <<pc, scannerVars, settingsVars, classifyVars, analysisVars>>

\* the value of keywordResult while no scan has returned
NoResult ==
    [flagged |-> FALSE, score |-> 0, matches |-> <<>>, severity |-> "low", details |-> <<>>]

NoMut == [op |-> "none", keyword |-> <<>>, afterAdd |-> FALSE, returned |-> FALSE]

\* the values of the classification variables while no call is under way
NoMessage == [body |-> <<>>, pad |-> 0]
NoResponse == [kind |-> "none", data |-> NoBody]
NoCall == [settled |-> "none", path |-> "none"]
NoVerdict == [isSuspicious |-> FALSE, reason |-> <<>>, confidence |-> 0, rounding |-> 0]

\* the values of analysis and notification while no analysis is under way
NoAnalysis ==
    [isSuspicious |-> FALSE, overallSeverity |-> "low", finalScore |-> 0, recommendation |-> <<>>]
NoNotification == [title |-> "", message |-> <<>>, priority |-> 0, requireInteraction |-> FALSE]

\* the scanner as constructed, no scan under way
ScannerAtRest ==
    /\ categories = BuiltinCategories
    /\ opCount = 0
    /\ lastMut = NoMut
    /\ text = <<>>
    /\ keywordResult = NoResult

\* the classifier as constructed: the field initialisers, and the storage
\* read that loadSettings has asked for
ClassifierConstructed ==
    /\ apiEndpoint = ""
    /\ apiKey = ""
    /\ mockMode = TRUE
    /\ stored \in InitialStores
    /\ pendingLoad = [pending |-> TRUE, result |-> stored]

\* no classification under way
NoClassification ==
    /\ message = NoMessage
    /\ response = NoResponse
    /\ aiCall = NoCall
    /\ aiResult = NoVerdict

\* a background script as loaded and installed: nothing analysed, and the
\* storage as onInstalled leaves it
NothingAnalysed ==
    /\ analyses = 0
    /\ analysis = NoAnalysis
    /\ lastAnalysis = 0
    /\ notification = NoNotification
    /\ history = <<>>
    /\ totalScans = 0
    /\ scamsDetected = 0
    /\ storageQueue = <<>>
    /\ suspicious = 0

(***************************************************************************)
(* The scanner on its own: addCustomKeyword, removeKeyword and scan called *)
(* in any order.                                                           *)
(***************************************************************************)
\* the variables the scanner's operations leave alone
notScanner == <<settingsVars, classifyVars, analysisVars>>

InitScanner ==
    /\ pc = "idle"
    /\ ScannerAtRest
    /\ ClassifierConstructed
    /\ stored = NothingStored
    /\ NoClassification
    /\ script = "background"
    /\ NothingAnalysed

\* a call of addCustomKeyword(keyword, severity, weight)
AddCustomKeyword(keyword, severity, weight) ==
    /\ pc = "idle"
    /\ opCount < MaxOps
    /\ categories' = addCustomKeyword(categories, keyword, severity, weight)
    /\ opCount' = opCount + 1
    /\ lastMut' = [op |-> "add", keyword |-> keyword, afterAdd |-> FALSE, returned |-> FALSE]
    /\ UNCHANGED <<pc, text, keywordResult, notScanner>>

\* a call of removeKeyword(keyword)
RemoveKeyword(keyword) ==
    /\ pc = "idle"
    /\ opCount < MaxOps
    /\ categories' = removeKeywordCategories(categories, keyword)
    /\ opCount' = opCount + 1
    /\ lastMut' = [op |-> "remove", keyword |-> keyword,
                   afterAdd |-> lastMut.op = "add" /\ lastMut.keyword = keyword,
                   returned |-> removeKeywordReturns(categories, keyword)]
    /\ UNCHANGED <<pc, text, keywordResult, notScanner>>

\* a call of scan(t), up to its return
Scan(t) ==
    /\ pc = "idle"
    /\ pc' = "scanned"
    /\ text' = t
    /\ keywordResult' = scan(categories, t)
    /\ UNCHANGED <<categories, opCount, lastMut, notScanner>>

\* the caller drops the result and is ready for the next call
ScanReturn ==
    /\ pc = "scanned"
    /\ pc' = "idle"
    /\ text' = <<>>
    /\ keywordResult' = NoResult
    /\ UNCHANGED <<categories, opCount, lastMut, notScanner>>

NextScanner ==
    \/ \E k \in Phrases, s \in CustomSeverities, w \in CustomWeights : AddCustomKeyword(k, s, w)
    \/ \E k \in Phrases : RemoveKeyword(k)
    \/ \E t \in Texts : Scan(t)
    \/ ScanReturn

SpecScanner == InitScanner /\ [][NextScanner]_vars

(***************************************************************************)
(* The heuristic evaluator on its own: mockClassify applied to a message.  *)
(***************************************************************************)
\* the variables a classification leaves alone
notClassify == <<scannerVars, analysisVars>>

InitHeuristic ==
    /\ pc = "idle"
    /\ ScannerAtRest
    /\ ClassifierConstructed
    /\ stored = NothingStored
    /\ message \in Messages
    /\ response = NoResponse
    /\ aiCall = NoCall
    /\ aiResult = NoVerdict
    /\ script = "background"
    /\ NothingAnalysed

\* mockClassify(message) returns
MockClassify ==
    /\ pc = "idle"
    /\ pc' = "classified"
    /\ aiResult' = mockClassify(message)
    /\ aiCall' = [settled |-> "resolved", path |-> "heuristic"]
    /\ UNCHANGED <<message, response, settingsVars, notClassify>>

NextHeuristic == MockClassify

SpecHeuristic == InitHeuristic /\ [][NextHeuristic]_vars

(***************************************************************************)
(* The classifier: its settings, and classifyWithAI with the fetch it      *)
(* waits for.                                                              *)
(***************************************************************************)
InitClassifier ==
    /\ pc = "idle"
    /\ ScannerAtRest
    /\ ClassifierConstructed
    /\ NoClassification
    /\ script = "background"
    /\ NothingAnalysed

\* the callback of chrome.storage.local.get in loadSettings runs
LoadSettingsCallback ==
    /\ pendingLoad.pending
    /\ apiEndpoint' = OrElse(pendingLoad.result.aiEndpoint, "", "")
    /\ apiKey' = OrElse(pendingLoad.result.aiKey, "", "")
    /\ mockMode' = ~(pendingLoad.result.mockMode.present /\ pendingLoad.result.mockMode.value = FALSE)
    /\ pendingLoad' = [pendingLoad EXCEPT !.pending = FALSE]
    /\ UNCHANGED <<pc, stored, classifyVars, notClassify>>

\* configureAPI(endpoint, key)
ConfigureAPI(endpoint, key) ==
    /\ apiEndpoint' = endpoint
    /\ apiKey' = key
    /\ mockMode' = FALSE
    /\ stored' = [aiEndpoint |-> Present(endpoint), aiKey |-> Present(key), mockMode |-> Present(FALSE)]
    /\ UNCHANGED <<pc, pendingLoad, classifyVars, notClassify>>

\* enableMockMode()
EnableMockMode ==
    /\ mockMode' = TRUE
    /\ stored' = [stored EXCEPT !.mockMode = Present(TRUE)]
    /\ UNCHANGED <<pc, apiEndpoint, apiKey, pendingLoad, classifyVars, notClassify>>

\* disableMockMode()
DisableMockMode ==
    /\ mockMode' = FALSE
    /\ stored' = [stored EXCEPT !.mockMode = Present(FALSE)]
    /\ UNCHANGED <<pc, apiEndpoint, apiKey, pendingLoad, classifyVars, notClassify>>

\* classifyWithAI(m) up to its first await: it returns the heuristic verdict,
\* or sends the request and waits
ClassifyWithAI(m) ==
    /\ pc = "idle"
    /\ message' = m
    /\ IF UsesHeuristic(mockMode, apiEndpoint)
       THEN /\ pc' = "classified"
            /\ aiResult' = mockClassify(m)
            /\ aiCall' = [settled |-> "resolved", path |-> "heuristic"]
       ELSE /\ pc' = "fetching"
            /\ UNCHANGED <<aiResult, aiCall>>
    /\ UNCHANGED <<response, settingsVars, notClassify>>

\* the fetch settles and classifyWithAI runs to its end
FetchSettles(outcome) ==
    /\ pc = "fetching"
    /\ pc' = "classified"
    /\ response' = outcome
    /\ LET r == FetchSettled(outcome, message)
       IN  /\ aiCall' = [settled |-> r.settled, path |-> r.path]
           /\ aiResult' = IF r.settled = "resolved" THEN r.verdict ELSE NoVerdict
    /\ UNCHANGED <<message, settingsVars, notClassify>>

\* the caller takes the verdict and is ready for the next call
ClassifyReturn ==
    /\ pc = "classified"
    /\ pc' = "idle"
    /\ message' = NoMessage
    /\ response' = NoResponse
    /\ aiCall' = NoCall
    /\ aiResult' = NoVerdict
    /\ UNCHANGED <<settingsVars, notClassify>>

NextClassifier ==
    \/ LoadSettingsCallback
    \/ \E e \in Endpoints, k \in ApiKeys : ConfigureAPI(e, k)
    \/ EnableMockMode
    \/ DisableMockMode
    \/ \E m \in ShortMessages : ClassifyWithAI(m)
    \/ \E o \in FetchOutcomes : FetchSettles(o)
    \/ ClassifyReturn

SpecClassifier == InitClassifier /\ [][NextClassifier]_vars

(***************************************************************************)
(* A background script: analyzeText from the scan to the entry in the      *)
(* history, one call at a time, with the settings read of the classifier   *)
(* arriving at any moment.  An entry of the history is the number of its   *)
(* analysis.                                                               *)
(***************************************************************************)
InitAnalysis ==
    /\ pc = "idle"
    /\ ScannerAtRest
    /\ ClassifierConstructed
    /\ NoClassification
    /\ script \in Scripts
    /\ NothingAnalysed

\* analyzeText(t, source) up to its first suspension: scanner.scan(text), then
\* classifyWithAI(text), which returns the heuristic verdict or sends the
\* request and waits; the calls are numbered up to most
AnalyzeTextWithin(t, most) ==
    /\ pc = "idle"
    /\ analyses < most
    /\ analyses' = analyses + 1
    /\ text' = t
    /\ keywordResult' = scan(categories, t)
    /\ message' = [body |-> t, pad |-> 0]
    /\ IF UsesHeuristic(mockMode, apiEndpoint)
       THEN /\ pc' = "classified"
            /\ aiResult' = mockClassify([body |-> t, pad |-> 0])
            /\ aiCall' = [settled |-> "resolved", path |-> "heuristic"]
       ELSE /\ pc' = "fetching"
            /\ UNCHANGED <<aiResult, aiCall>>
    /\ UNCHANGED <<categories, opCount, lastMut, response, settingsVars>>
    /\ UNCHANGED <<flowVars, script, analysis, lastAnalysis, notification, storageVars>>

\* analyzeText(t, source), one of the MaxAnalyses calls
AnalyzeText(t) == AnalyzeTextWithin(t, MaxAnalyses)

\* analyzeText of background.ts from the verdict to its return: the analysis,
\* lastAnalysis, the notification, and the storage reads of saveToHistory and
\* updateStats asked for
AnalyzeTextBackground ==
    /\ pc = "classified"
    /\ script = "background"
    /\ pc' = "saving"
    /\ LET a == combineBackground(keywordResult, aiResult)
       IN  /\ analysis' = a
           /\ notification' = IF a.isSuspicious
                              THEN showNotificationBackground(a.overallSeverity)
                              ELSE NoNotification
    /\ lastAnalysis' = analyses
    /\ UNCHANGED <<scannerVars, settingsVars, classifyVars, flowVars, script, analyses, storageVars>>

\* the callback of chrome.storage.local.get in saveToHistory of background.ts
SaveToHistoryBackground ==
    /\ pc = "saving"
    /\ script = "background"
    /\ pc' = "counting"
    /\ history' = saveToHistoryBackground(history, analyses)
    /\ UNCHANGED <<scannerVars, settingsVars, classifyVars>>
    /\ UNCHANGED <<flowVars, script, analyses, analysis, lastAnalysis, notification, totalScans, scamsDetected>>

\* the callback of chrome.storage.local.get in updateStats
UpdateStats ==
    /\ pc = "counting"
    /\ pc' = "done"
    /\ totalScans' = totalScans + 1
    /\ scamsDetected' = scamsDetected + (IF analysis.isSuspicious THEN 1 ELSE 0)
    /\ UNCHANGED <<scannerVars, settingsVars, classifyVars>>
    /\ UNCHANGED <<flowVars, script, analyses, analysis, lastAnalysis, notification, history>>

\* analyzeText of the second script from the verdict to await saveToHistory:
\* combineResults, lastAnalysis, and the storage read asked for
AnalyzeTextPart002 ==
    /\ pc = "classified"
    /\ script = "part_002"
    /\ pc' = "saving"
    /\ analysis' = combineResults(keywordResult, aiResult)
    /\ lastAnalysis' = analyses
    /\ UNCHANGED <<scannerVars, settingsVars, classifyVars>>
    /\ UNCHANGED <<flowVars, script, analyses, notification, storageVars>>

\* the callback of chrome.storage.local.get in saveToHistory of the second script
SaveToHistoryPart002 ==
    /\ pc = "saving"
    /\ script = "part_002"
    /\ pc' = "saved"
    /\ history' = saveToHistoryPart002(history, analyses)
    /\ UNCHANGED <<scannerVars, settingsVars, classifyVars>>
    /\ UNCHANGED <<flowVars, script, analyses, analysis, lastAnalysis, notification, totalScans, scamsDetected>>

\* the write is done, saveToHistory resolves and analyzeText of the second
\* script runs to its end: the notification and ANALYSIS_COMPLETE
AnalyzeTextPart002Resumes ==
    /\ pc = "saved"
    /\ pc' = "done"
    /\ notification' = IF analysis.isSuspicious /\ analysis.overallSeverity # "low"
                       THEN showNotificationPart002(analysis)
                       ELSE NoNotification
    /\ UNCHANGED <<scannerVars, settingsVars, classifyVars>>
    /\ UNCHANGED <<flowVars, script, analyses, analysis, lastAnalysis, storageVars>>

\* the analysis is over and the script is ready for the next message
AnalysisReturn ==
    /\ pc = "done"
    /\ pc' = "idle"
    /\ text' = <<>>
    /\ keywordResult' = NoResult
    /\ message' = NoMessage
    /\ response' = NoResponse
    /\ aiCall' = NoCall
    /\ aiResult' = NoVerdict
    /\ analysis' = NoAnalysis
    /\ notification' = NoNotification
    /\ UNCHANGED <<categories, opCount, lastMut, settingsVars>>
    /\ UNCHANGED <<flowVars, script, analyses, lastAnalysis, storageVars>>

NextAnalysis ==
    \/ LoadSettingsCallback
    \/ \E t \in AnalysisTexts : AnalyzeText(t)
    \/ \E o \in AnalysisOutcomes : FetchSettles(o)
    \/ AnalyzeTextBackground
    \/ SaveToHistoryBackground
    \/ UpdateStats
    \/ AnalyzeTextPart002
    \/ SaveToHistoryPart002
    \/ AnalyzeTextPart002Resumes
    \/ AnalysisReturn

SpecAnalysis == InitAnalysis /\ [][NextAnalysis]_vars

(***************************************************************************)
(* The history: analyses of one text recorded one after the other, with    *)
(* CLEAR_HISTORY arriving at any moment, until the history has been full.  *)
(***************************************************************************)
InitHistory ==
    /\ pc = "idle"
    /\ ScannerAtRest
    /\ ClassifierConstructed
    /\ stored = NothingStored
    /\ NoClassification
    /\ script \in Scripts
    /\ NothingAnalysed

\* the handler of CLEAR_HISTORY: background.ts resets the history and both
\* counters, the second script the history only
ClearHistory ==
    /\ history' = <<>>
    /\ IF script = "background"
       THEN totalScans' = 0 /\ scamsDetected' = 0
       ELSE UNCHANGED <<totalScans, scamsDetected>>
    /\ UNCHANGED <<pc, scannerVars, settingsVars, classifyVars>>
    /\ UNCHANGED <<flowVars, script, analyses, analysis, lastAnalysis, notification>>

NextHistory ==
    \/ \E t \in HistoryTexts : AnalyzeTextWithin(t, MaxRecords)
    \/ AnalyzeTextBackground
    \/ SaveToHistoryBackground
    \/ UpdateStats
    \/ AnalyzeTextPart002
    \/ SaveToHistoryPart002
    \/ AnalyzeTextPart002Resumes
    \/ AnalysisReturn
    \/ ClearHistory

SpecHistory == InitHistory /\ [][NextHistory]_vars

(***************************************************************************)
(* Several analyses under way at once.  In heuristic mode analyzeText runs *)
(* without a break up to its storage reads; chrome.storage.local serves    *)
(* the reads and writes in the order they were asked for, and the callback *)
(* of a read asks for the write.                                           *)
(***************************************************************************)
\* a read of the storage asked for by the analysis numbered entry
StorageRead(key, entry, a) ==
    [op |-> "get", key |-> key, entry |-> entry, analysis |-> a,
     history |-> <<>>, totalScans |-> 0, scamsDetected |-> 0]

InitConcurrent ==
    /\ pc = "idle"
    /\ ScannerAtRest
    /\ ClassifierConstructed
    /\ stored = NothingStored
    /\ NoClassification
    /\ script \in Scripts
    /\ NothingAnalysed

\* analyzeText(t, source) in heuristic mode, up to its return in
\* background.ts and up to await saveToHistory in the second script
AnalyzeTextHeuristic(t) ==
    /\ pc = "idle"
    /\ UsesHeuristic(mockMode, apiEndpoint)
    /\ analyses < MaxFlows
    /\ LET kw == scan(categories, t)
           ai == mockClassify([body |-> t, pad |-> 0])
           a == IF script = "background" THEN combineBackground(kw, ai) ELSE combineResults(kw, ai)
           entry == analyses + 1
       IN  /\ analyses' = entry
           /\ text' = t
           /\ keywordResult' = kw
           /\ message' = [body |-> t, pad |-> 0]
           /\ aiResult' = ai
           /\ aiCall' = [settled |-> "resolved", path |-> "heuristic"]
           /\ analysis' = a
           /\ lastAnalysis' = entry
           /\ suspicious' = suspicious + (IF a.isSuspicious THEN 1 ELSE 0)
           /\ notification' = IF script = "background" /\ a.isSuspicious
                              THEN showNotificationBackground(a.overallSeverity)
                              ELSE notification
           /\ storageQueue' = storageQueue \o
                  (IF script = "background"
                   THEN <<StorageRead("history", entry, a), StorageRead("stats", entry, a)>>
                   ELSE <<StorageRead("history", entry, a)>>)
    /\ UNCHANGED <<pc, categories, opCount, lastMut, response, settingsVars, script, storageVars>>

\* the read of saveToHistory is served and its callback asks for the write
HistoryRead ==
    /\ storageQueue # <<>>
    /\ Head(storageQueue).op = "get"
    /\ Head(storageQueue).key = "history"
    /\ LET read == Head(storageQueue)
           h == IF script = "background"
                THEN saveToHistoryBackground(history, read.entry)
                ELSE saveToHistoryPart002(history, read.entry)
       IN  storageQueue' = Append(Tail(storageQueue), [read EXCEPT !.op = "set", !.history = h])
    /\ UNCHANGED <<pc, scannerVars, settingsVars, classifyVars>>
    /\ UNCHANGED <<script, analyses, analysis, lastAnalysis, notification, storageVars, suspicious>>

\* the read of updateStats is served and its callback asks for the write
StatsRead ==
    /\ storageQueue # <<>>
    /\ Head(storageQueue).op = "get"
    /\ Head(storageQueue).key = "stats"
    /\ LET read == Head(storageQueue)
       IN  storageQueue' = Append(Tail(storageQueue),
               [read EXCEPT !.op = "set",
                            !.totalScans = totalScans + 1,
                            !.scamsDetected = scamsDetected
                                + (IF read.analysis.isSuspicious THEN 1 ELSE 0)])
    /\ UNCHANGED <<pc, scannerVars, settingsVars, classifyVars>>
    /\ UNCHANGED <<script, analyses, analysis, lastAnalysis, notification, storageVars, suspicious>>

\* the write of saveToHistory is served; in the second script saveToHistory
\* resolves and analyzeText runs to its end
HistoryWritten ==
    /\ storageQueue # <<>>
    /\ Head(storageQueue).op = "set"
    /\ Head(storageQueue).key = "history"
    /\ storageQueue' = Tail(storageQueue)
    /\ history' = Head(storageQueue).history
    /\ LET a == Head(storageQueue).analysis
       IN  notification' = IF script = "part_002" /\ a.isSuspicious /\ a.overallSeverity # "low"
                           THEN showNotificationPart002(a)
                           ELSE notification
    /\ UNCHANGED <<pc, scannerVars, settingsVars, classifyVars>>
    /\ UNCHANGED <<script, analyses, analysis, lastAnalysis, totalScans, scamsDetected, suspicious>>

\* the write of updateStats is served
StatsWritten ==
    /\ storageQueue # <<>>
    /\ Head(storageQueue).op = "set"
    /\ Head(storageQueue).key = "stats"
    /\ storageQueue' = Tail(storageQueue)
    /\ totalScans' = Head(storageQueue).totalScans
    /\ scamsDetected' = Head(storageQueue).scamsDetected
    /\ UNCHANGED <<pc, scannerVars, settingsVars, classifyVars>>
    /\ UNCHANGED <<script, analyses, analysis, lastAnalysis, notification, history, suspicious>>

NextConcurrent ==
    \/ \E t \in ConcurrentTexts : AnalyzeTextHeuristic(t)
    \/ HistoryRead
    \/ StatsRead
    \/ HistoryWritten
    \/ StatsWritten

SpecConcurrent == InitConcurrent /\ [][NextConcurrent]_vars

(***************************************************************************)
(* Claims about the scanner (checked under SpecScanner).                   *)
(***************************************************************************)
\* the number of details of one severity
CountOf(details, severity) ==
    Cardinality({i \in 1..Len(details) : details[i].severity = severity})

\* the highest severity among the details (of a non-empty list)
HighestPresent(details) ==
    CHOOSE s \in Severities :
        /\ CountOf(details, s) > 0
        /\ \A i \in 1..Len(details) : severityRanks[details[i].severity] <= severityRanks[s]

Reversed(seq) == [i \in 1..Len(seq) |-> seq[Len(seq) + 1 - i]]

\* C1: the overall severity of a scan is critical when its details hold two
\* critical matches or one critical and one high match; otherwise it is the
\* highest severity present, and low without details; the details taken in
\* the opposite order give the same severity.
C1_OverallSeverity ==
    pc = "scanned" =>
        LET d == keywordResult.details
            expected ==
                IF CountOf(d, "critical") >= 2
                   \/ (CountOf(d, "critical") >= 1 /\ CountOf(d, "high") >= 1)
                THEN "critical"
                ELSE IF Len(d) = 0 THEN "low"
                ELSE HighestPresent(d)
        IN  /\ keywordResult.severity = expected
            /\ calculateOverallSeverity(Reversed(d)) = keywordResult.severity

\* C1 witness: a scan found a high match and, after it, a lower one, and no
\* critical match, so that the severity is the maximum and not the last
C1_Witness ==
    /\ pc = "scanned"
    /\ CountOf(keywordResult.details, "critical") = 0
    /\ CountOf(keywordResult.details, "high") >= 1
    /\ keywordResult.details[Len(keywordResult.details)].severity = "medium"
    /\ keywordResult.severity = "high"

\* the sum over details[i..] of severityScore x weight of each detail's category
RECURSIVE SumOfDetails(_, _, _)
SumOfDetails(details, cats, i) ==
    IF i > Len(details) THEN 0
    ELSE severityScores[cats[details[i].cat].severity] * cats[details[i].cat].weight
         + SumOfDetails(details, cats, i + 1)

\* text[i+1 .. i+n] lies inside an earlier reported match of the same keyword
\* of the same category
CoveredByEarlier(details, c, keyword, i) ==
    \E k \in 1..Len(details) :
        /\ details[k].cat = c /\ details[k].keyword = keyword
        /\ details[k].position < i
        /\ i < details[k].position + Len(keyword)

\* C2: score is the sum over the details of severityScore x category weight,
\* so it is never negative and 0 without a match; matches holds every keyword
\* of the details once; a detail stands for each occurrence of each listed
\* keyword; flagged says whether there is a detail.
C2_ScanResult ==
    pc = "scanned" =>
        LET r == keywordResult
            d == r.details
        IN  /\ r.score = SumOfDetails(d, categories, 1)
            /\ r.score >= 0
            /\ {r.matches[i] : i \in 1..Len(r.matches)} = {d[i].keyword : i \in 1..Len(d)}
            /\ \A i, j \in 1..Len(r.matches) : i # j => r.matches[i] # r.matches[j]
            /\ r.flagged = (Len(d) > 0)
            /\ Len(d) = 0 => (r.score = 0 /\ r.severity = "low" /\ ~r.flagged)
            /\ \A k \in 1..Len(d) :
                  /\ d[k].severity = categories[d[k].cat].severity
                  /\ IndexOf(categories[d[k].cat].keywords, d[k].keyword) > 0
                  /\ MatchesAt(d[k].keyword, text, d[k].position)
            /\ \A c \in 1..Len(categories) : \A n \in 1..Len(categories[c].keywords) :
                  LET keyword == categories[c].keywords[n]
                  IN  \A i \in 0..Len(text) :
                        MatchesAt(keyword, text, i) =>
                            \/ CoveredByEarlier(d, c, keyword, i)
                            \/ Cardinality({k \in 1..Len(d) :
                                   d[k].cat = c /\ d[k].keyword = keyword
                                   /\ d[k].position = i}) = 1

\* C2 witness: a phrase occurred twice, giving two details and one entry of
\* matches, under a configuration that addCustomKeyword has changed
C2_Witness ==
    /\ pc = "scanned"
    /\ opCount > 0
    /\ Len(keywordResult.matches) = 1
    /\ Len(keywordResult.details) = 2
    /\ keywordResult.details[1].position # keywordResult.details[2].position
    /\ keywordResult.score > 0

\* the phrase occurs in the text as a whole word, in any letter case
OccursIn(keyword, t) == \E i \in 0..Len(t) : MatchesAt(keyword, t, i)

\* the scan reports the phrase, in any letter case
Reports(result, keyword) ==
    \E k \in 1..Len(result.details) :
        ToLowerCase(result.details[k].keyword) = ToLowerCase(keyword)

\* C3: a scan right after addCustomKeyword(p, s), of a text that holds p as a
\* whole word, is flagged and reports p; a scan right after the following
\* removeKeyword(p), which returned true, reports no match for p.
C3_AddThenRemove ==
    /\ (pc = "scanned" /\ lastMut.op = "add" /\ OccursIn(lastMut.keyword, text))
          => (keywordResult.flagged /\ Reports(keywordResult, lastMut.keyword))
    /\ (lastMut.op = "remove" /\ lastMut.afterAdd) => lastMut.returned
    /\ (pc = "scanned" /\ lastMut.op = "remove" /\ lastMut.afterAdd
          /\ OccursIn(lastMut.keyword, text))
          => ~Reports(keywordResult, lastMut.keyword)


(***************************************************************************)
(* Claims about the classifier (checked under SpecClassifier and           *)
(* SpecHeuristic).                                                         *)
(***************************************************************************)
\* C4: the confidence of every verdict classifyWithAI returns lies in
\* [0, 1], whether the heuristic evaluator, a successful response or the
\* fallback produced it.
C4_ConfidenceInRange ==
    pc = "classified" => (aiResult.confidence >= 0 /\ aiResult.confidence <= 100)

FailureKinds == {"network_error", "http_error", "parse_error", "null_body"}

\* C5: when the delegated request fails (the fetch rejects, the status is no
\* success, the body cannot be parsed), classifyWithAI resolves, and with the
\* verdict of the heuristic evaluator for the same message.
C5_FallbackOnFailure ==
    (pc = "classified" /\ response.kind \in FailureKinds) =>
        /\ aiCall.settled = "resolved"
        /\ aiResult = mockClassify(message)

\* C5 witness: a request answered with an error status has fallen back to a
\* heuristic verdict that is suspicious
C5_Witness ==
    /\ pc = "classified"
    /\ response.kind = "http_error"
    /\ response.data.confidence.present
    /\ aiCall.path = "fallback"
    /\ aiResult.isSuspicious
    /\ aiResult.confidence = 40

\* C6: after a successful response the verdict carries each field the body
\* holds unchanged (also confidence 0, isSuspicious false, the empty
\* reason), and the default only for a field the body lacks.
C6_RemoteFieldsKept ==
    (pc = "classified" /\ response.kind = "ok") =>
        LET data == response.data
        IN  /\ aiResult.isSuspicious =
                  (IF data.isSuspicious.present THEN data.isSuspicious.value ELSE FALSE)
            /\ aiResult.reason =
                  (IF data.reason.present THEN data.reason.value ELSE NoExplanation)
            /\ aiResult.confidence =
                  (IF data.confidence.present THEN data.confidence.value ELSE 50)

\* the increments of the signals of a message but the last, each counted
\* when its condition holds
SignalSum(msg) ==
    LET lowerMsg == ToLowerCase(msg.body)
    IN  (IF Urgency(lowerMsg) THEN 30 ELSE 0)
        + (IF ClickLink(lowerMsg) THEN 25 ELSE 0)
        + (IF Verification(lowerMsg) THEN 20 ELSE 0)
        + (IF AccountThreat(lowerMsg) THEN 40 ELSE 0)
        + (IF SensitiveData(lowerMsg) THEN 50 ELSE 0)
        + (IF UnusualPayment(lowerMsg) THEN 60 ELSE 0)
        + (IF MultipleUrls(msg.body) THEN 20 ELSE 0)

\* C7: the score of the heuristic evaluator is the sum of the increments of
\* the signals that trigger, plus 0.1 when the message is longer than 500
\* characters and that sum is above 0.3; confidence is the smaller of the
\* score and 1.0, and isSuspicious holds exactly when confidence >= 0.4.
C7_HeuristicScore ==
    pc = "classified" =>
        LET sum == SignalSum(message)
            score == IF MsgLength(message) > 500 /\ sum > 30 THEN sum + 10 ELSE sum
        IN  /\ aiResult.confidence = (IF score < 100 THEN score ELSE 100)
            /\ aiResult.isSuspicious = (aiResult.confidence >= 40)

\* C7 witness: a message of more than 500 characters whose signals sum to
\* exactly 0.3 was evaluated, and got no bonus
C7_Witness ==
    /\ pc = "classified"
    /\ MsgLength(message) = 501
    /\ SignalSum(message) = 30
    /\ aiResult.confidence = 30
    /\ ~aiResult.isSuspicious

\* the sentences of the signals of a message that trigger, in their order
TriggeredFragments(msg) ==
    LET lowerMsg == ToLowerCase(msg.body)
        sum == SignalSum(msg)
        all == << [on |-> Urgency(lowerMsg), says |-> "Uses urgent language"],
                  [on |-> ClickLink(lowerMsg), says |-> "Contains clickable link request"],
                  [on |-> Verification(lowerMsg), says |-> "Requests verification"],
                  [on |-> AccountThreat(lowerMsg), says |-> "Threatens account suspension"],
                  [on |-> SensitiveData(lowerMsg), says |-> "Requests sensitive information"],
                  [on |-> UnusualPayment(lowerMsg), says |-> "Requests unusual payment method"],
                  [on |-> MultipleUrls(msg.body), says |-> "Contains multiple URLs"],
                  [on |-> MsgLength(msg) > 500 /\ sum > 30,
                   says |-> "Long message with suspicious content"] >>
        on == SelectSeq(all, LAMBDA f : f.on)
    IN  [i \in 1..Len(on) |-> on[i].says]

\* C8: the reason of a heuristic verdict lists the sentences of the signals
\* that triggered, and is the fixed message only when none triggered.
C8_ReasonListsTriggered ==
    pc = "classified" =>
        aiResult.reason =
            (IF TriggeredFragments(message) = <<>> THEN NothingDetected
             ELSE TriggeredFragments(message))

(***************************************************************************)
(* Claims about the background scripts (checked under SpecAnalysis).       *)
(***************************************************************************)
\* the analysis under way has been combined
Combined == pc \in {"saving", "counting", "saved", "done"}

\* the top of the scale finalScore is on: 1.0 in thousandths for
\* background.ts, 100 in tenths for the second script
ScaleTop(s) == IF s = "background" THEN 1000 ELSE 100 * 10

\* C9: in both background scripts the keyword score is brought onto the scale
\* of the confidence before the two are blended, so that for every verdict
\* with a confidence in [0, 1] finalScore lies within that scale (0..1 in
\* background.ts, 0..100 in the second script) however high the keyword
\* score is.
C9_FinalScoreWithinScale ==
    (Combined /\ aiResult.confidence >= 0 /\ aiResult.confidence <= 100)
        => (analysis.finalScore >= 0 /\ analysis.finalScore <= ScaleTop(script))

\* the blended score at which an analysis counts as suspicious: 0.5 in
\* background.ts, and the same half of the scale in the second script
SuspicionThreshold(s) == ScaleTop(s) \div 2

\* C10: the combined isSuspicious is true exactly when the keyword result is
\* flagged with a severity other than low, or the verdict is suspicious, or
\* the blended score reaches the suspicion threshold; a flagged result of
\* severity medium or high always makes the analysis suspicious, one of
\* severity low alone does not.
C10_SuspiciousExactlyWhen ==
    Combined =>
        (analysis.isSuspicious <=>
            \/ keywordResult.flagged /\ keywordResult.severity # "low"
            \/ aiResult.isSuspicious
            \/ analysis.finalScore >= SuspicionThreshold(script))

\* aiResult.confidence >= threshold on doubles, threshold in hundredths
AtLeast(ai, threshold) ==
    ai.confidence > threshold \/ (ai.confidence = threshold /\ ai.rounding >= 0)

\* the severity the priority rule gives a keyword severity and a verdict
SeverityByRule(keywordSeverity, ai) ==
    IF keywordSeverity = "critical" \/ (ai.isSuspicious /\ AtLeast(ai, 80)) THEN "critical"
    ELSE IF keywordSeverity = "high" \/ (ai.isSuspicious /\ AtLeast(ai, 60)) THEN "high"
    ELSE IF keywordSeverity = "medium" \/ ai.isSuspicious THEN "medium"
    ELSE "low"

\* C11: overallSeverity is decided in priority order from the keyword
\* severity and the verdict: critical if the keyword severity is critical or
\* the verdict is suspicious with confidence >= 0.8, else high if the keyword
\* severity is high or the verdict is suspicious with confidence >= 0.6, else
\* medium if the keyword severity is medium or the verdict is suspicious,
\* else low; also at confidence exactly 0.8 and exactly 0.6.
C11_SeverityByRule ==
    Combined => analysis.overallSeverity = SeverityByRule(keywordResult.severity, aiResult)

\* C12: for every completed analysis, a notification has gone to
\* chrome.notifications exactly when the analysis is suspicious and its
\* overallSeverity is not low; none goes out for an analysis of severity low.
C12_NotifiedExactlyWhen ==
    pc = "done" =>
        (notification # NoNotification
            <=> (analysis.isSuspicious /\ analysis.overallSeverity # "low"))

\* the recommendation opens with an 'appears safe' wording
LeadAppearsSafe(recommendation) ==
    /\ recommendation # <<>>
    /\ recommendation[1] \in {AppearsSafe, AppearsSafePart002}

\* C14: the lead sentence of the recommendation goes by overallSeverity: an
\* analysis of overallSeverity critical, high or medium never gets the
\* 'appears safe' wording, which is produced only for overallSeverity low.
C14_SafeWordingOnlyForLow ==
    Combined => (LeadAppearsSafe(analysis.recommendation) => analysis.overallSeverity = "low")

(***************************************************************************)
(* Claims about the history (checked under SpecHistory).                   *)
(***************************************************************************)
\* the entries of a history run from the newest to the oldest
NewestFirst(h) == \A i \in 1..(Len(h) - 1) : h[i] > h[i + 1]

\* C13: after any sequence of recorded analyses and clears the history
\* holds at most 100 entries, newest first; recording an entry (the step
\* that leaves "saving") puts it in front, and when the history is full the
\* entry that goes is the oldest, the last in storage order; no other step
\* but a clear changes the history.
C13_HistoryBounded ==
    /\ [](Len(history) <= HistoryCap /\ NewestFirst(history))
    /\ [][IF pc = "saving" /\ pc' # "saving"
           THEN history' = <<analyses>> \o
                    (IF Len(history) = HistoryCap
                     THEN SubSeq(history, 1, HistoryCap - 1)
                     ELSE history)
           ELSE history' \in {history, <<>>}]_vars

\* more than 100 analyses have been recorded and counted since the last
\* clear, and the history is full
C13_Witness ==
    /\ script = "background"
    /\ totalScans > HistoryCap
    /\ Len(history) = HistoryCap

(***************************************************************************)
(* Claims about analyses under way at once (checked under SpecConcurrent). *)
(***************************************************************************)
\* C15: when the storage reads and writes of several analyses interleave, no
\* update is lost: once all of n <= 100 analyses have finished, with no
\* clear in between, the history holds exactly their n entries, totalScans
\* has grown by n and scamsDetected by the number of suspicious ones (the
\* two counters in background.ts, which keeps them).
C15_NoLostUpdate ==
    (storageQueue = <<>> /\ analyses <= HistoryCap) =>
        /\ Len(history) = analyses
        /\ {history[i] : i \in 1..Len(history)} = 1..analyses
        /\ script = "background" => (totalScans = analyses /\ scamsDetected = suspicious)

(***************************************************************************)
(* Claims about the settings of the classifier (checked under              *)
(* SpecClassifier).                                                        *)
(***************************************************************************)
\* the settings the storage holds, read the way loadSettings reads them
PersistedEndpoint == OrElse(stored.aiEndpoint, "", "")
PersistedKey == OrElse(stored.aiKey, "", "")
PersistedMockMode == ~(stored.mockMode.present /\ stored.mockMode.value = FALSE)

\* C16: however the settings read of the constructor interleaves with
\* configureAPI, enableMockMode and disableMockMode, its late result never
\* overwrites what such a call has set: once the callback of the read has
\* run, the endpoint, the credential and the mock flag of the classifier
\* equal the persisted ones, and a classification started while the
\* persisted settings are those of a configureAPI(endpoint, key) with an
\* endpoint runs in delegated mode.
C16_LoadNeverOverwrites ==
    /\ [](~pendingLoad.pending =>
             /\ apiEndpoint = PersistedEndpoint
             /\ apiKey = PersistedKey
             /\ mockMode = PersistedMockMode)
    /\ [][(/\ ~pendingLoad.pending
           /\ ~PersistedMockMode
           /\ PersistedEndpoint # ""
           /\ pc = "idle"
           /\ pc' # "idle") => pc' = "fetching"]_vars
====
